---- MODULE Spec2Model ----
(***************************************************************************)
(* Model of backend/main.py of the FRA WebGIS decision support backend:    *)
(* the analytics handler get_analytics (global tally, per-district tally,  *)
(* risk scoring, classification, ranking) and the report handler           *)
(* generate_report (credential check, district lookup, external call).     *)
(*                                                                         *)
(* The features of the claim store are read one per loop iteration: the    *)
(* length of the list is fixed when the store is loaded (total_claims =    *)
(* len(features)), and the record of each iteration is drawn when the loop *)
(* reaches it.  Records are Python dicts, modelled as functions whose      *)
(* DOMAIN is the set of keys present, so that dict.get(key, default) is    *)
(* modelled by what it does.  The stores explored are the short stores (at *)
(* most MaxFeatures records drawn from FeatureSet) and the long stores (at *)
(* most MaxDeepFeatures records drawn from DeepFeatureSet); the long ones  *)
(* make the risk scores on the band limits 40 and 70 occur.                *)
(*                                                                         *)
(* Floating point: risk scores are modelled as exact rationals <<n, d>>.   *)
(* For districts of fewer than 35 records the IEEE double evaluation of    *)
(* the source's expressions gives the same band and the same 2-decimal     *)
(* rounding as exact arithmetic; the bounds below stay far under that.     *)
(***************************************************************************)
EXTENDS Integers, Sequences, FiniteSets, TLC

\* ---------------------------------------------------------------- bounds
MaxFeatures     == 3
MaxDeepFeatures == 10

\* ------------------------------------------------------- program constants
LowMax      == 40
ModerateMax == 70

Placeholder == "your_gemini_api_key_here"
NoKey       == "<unset>"
NotRead     == "<not read>"

\* ------------------------------------------------------------ input domains
DistrictNames  == {"A", "B"}
StatusValues   == {"Approved", "Pending", "Conflict"}
RequestedNames == {"A"}
KeyValues      == {NoKey, "", Placeholder, "secret"}

EmptyMap == [k \in {} |-> FALSE]

OptField(key, values) == {EmptyMap} \cup {(key :> v) : v \in values}

FlagMaps ==
    {EmptyMap, ("overlap" :> TRUE), ("overlap" :> FALSE),
     ("protected_zone" :> TRUE)}

PropsSet ==
    { a @@ b @@ c : a \in OptField("district", DistrictNames),
                    b \in OptField("status", StatusValues),
                    c \in FlagMaps }

FeatureSet == {EmptyMap} \cup {("properties" :> p) : p \in PropsSet}

DeepPropsSet ==
    { ("district" :> "A") @@ b @@ c :
          b \in OptField("status", {"Pending", "Approved"}),
          c \in OptField("overlap", {TRUE}) }

DeepFeatureSet == {("properties" :> p) : p \in DeepPropsSet}

\* The records a store of n features is drawn from.
StoreRecords(n) == IF n <= MaxFeatures THEN FeatureSet ELSE DeepFeatureSet

\* ------------------------------------------------------------------ state
VARIABLES
    GEMINI_API_KEY,      \* value os.getenv gave the request being served
    pc,                  \* position of the request being served
    endpoint,            \* "none" | "analytics" | "report"
    district_arg,        \* path parameter of /api/report/{district}
    total_claims,        \* len(features)
    idx,                 \* number of features the loop has processed
    feature,             \* loop variable of the tally loop
    approved_claims,
    pending_claims,
    conflict_claims,
    districts_data,      \* dict: district name -> counters
    order,               \* insertion order of the keys of districts_data
    analytics_response,  \* value returned by get_analytics
    response,            \* value returned to the HTTP caller
    ext_calls            \* calls made to model.generate_content

vars == <<GEMINI_API_KEY, pc, endpoint, district_arg, total_claims, idx,
          feature, approved_claims, pending_claims, conflict_claims,
          districts_data, order, analytics_response, response, ext_calls>>

analyticsVars == <<total_claims, idx, feature, approved_claims,
                   pending_claims, conflict_claims, districts_data, order>>

\* ---------------------------------------------------------------- helpers
\* dict.get(key, default)
Get(m, key, default) == IF key \in DOMAIN m THEN m[key] ELSE default

Props(f)     == Get(f, "properties", EmptyMap)
District_default_A(f) == Get(Props(f), "district", "A")
District(f)  == Get(Props(f), "district", "Unknown")
Status(f)    == Get(Props(f), "status", "Unknown")
Overlap(f)   == Get(Props(f), "overlap", FALSE)
Protected(f) == Get(Props(f), "protected_zone", FALSE)

\* Global counts, lines 70-77: an if / elif / elif chain.
GlobalCounts_independent_if(g, status, overlap, protected) ==
    [approved |-> g.approved + (IF status = "Approved" THEN 1 ELSE 0),
     pending  |-> g.pending + (IF status = "Pending" THEN 1 ELSE 0),
     conflict |-> g.conflict +
                  (IF status = "Conflict" \/ overlap \/ protected THEN 1 ELSE 0)]
GlobalCounts(g, status, overlap, protected) ==
    IF status = "Approved" THEN [g EXCEPT !.approved = @ + 1]
    ELSE IF status = "Pending" THEN [g EXCEPT !.pending = @ + 1]
    ELSE IF status = "Conflict" \/ overlap \/ protected
         THEN [g EXCEPT !.conflict = @ + 1]
    ELSE g

\* Lazy initialisation of a district aggregate, lines 80-86.
ZeroStats == [total |-> 0, pending |-> 0, conflicts |-> 0, approved |-> 0]
EnsureDistrict(dd, district) ==
    IF district \in DOMAIN dd THEN dd ELSE (district :> ZeroStats) @@ dd
EnsureOrder(ord, dd, district) ==
    IF district \in DOMAIN dd THEN ord ELSE Append(ord, district)

\* District counts, lines 89-97.
DistrictCounts_total_once(s, status, overlap, protected) ==
    LET s1 == [s EXCEPT !.total = IF @ = 0 THEN 1 ELSE @]
        s2 == IF status = "Pending" THEN [s1 EXCEPT !.pending = @ + 1]
              ELSE IF status = "Approved" THEN [s1 EXCEPT !.approved = @ + 1]
              ELSE s1
    IN  IF overlap \/ protected \/ status = "Conflict"
        THEN [s2 EXCEPT !.conflicts = @ + 1] ELSE s2
DistrictCounts_conflict_exclusive(s, status, overlap, protected) ==
    LET s1 == [s EXCEPT !.total = @ + 1]
    IN  IF status = "Pending" THEN [s1 EXCEPT !.pending = @ + 1]
        ELSE IF status = "Approved" THEN [s1 EXCEPT !.approved = @ + 1]
        ELSE IF overlap \/ protected \/ status = "Conflict"
             THEN [s1 EXCEPT !.conflicts = @ + 1]
        ELSE s1
DistrictCounts_both(s, status, overlap, protected) ==
    LET s1 == [s EXCEPT !.total = @ + 1]
        s2 == IF status = "Pending" THEN [s1 EXCEPT !.pending = @ + 1] ELSE s1
        s3 == IF status \in {"Approved", "Pending"}
              THEN [s2 EXCEPT !.approved = @ + 1] ELSE s2
    IN  IF overlap \/ protected \/ status = "Conflict"
        THEN [s3 EXCEPT !.conflicts = @ + 1] ELSE s3
DistrictCounts(s, status, overlap, protected) ==
    LET s1 == [s EXCEPT !.total = @ + 1]
        s2 == IF status = "Pending" THEN [s1 EXCEPT !.pending = @ + 1]
              ELSE IF status = "Approved" THEN [s1 EXCEPT !.approved = @ + 1]
              ELSE s1
    IN  IF overlap \/ protected \/ status = "Conflict"
        THEN [s2 EXCEPT !.conflicts = @ + 1] ELSE s2

\* ------------------------------------------------------- rational numbers
RatMul(a, b) == <<a[1] * b[1], a[2] * b[2]>>
RatAdd(a, b) == <<a[1] * b[2] + b[1] * a[2], a[2] * b[2]>>
RatLeq(a, b) == a[1] * b[2] <= b[1] * a[2]
RatInt(n)    == <<n, 1>>
Half         == <<1, 2>>

\* round(x, digits) as the integer round(x * 10^digits), ties to even
Pow10(digits) == IF digits = 1 THEN 10 ELSE 100
Round(x, digits) ==
    LET q   == x[1] * Pow10(digits)
        fl  == q \div x[2]
        rem == q % x[2]
    IN  IF 2 * rem > x[2] \/ (2 * rem = x[2] /\ fl % 2 = 1) THEN fl + 1 ELSE fl

\* Lines 106-111.
Pct(count, total) == RatMul(<<count, total>>, RatInt(100))
RiskScore_unweighted_pending(stats) ==
    RatAdd(Pct(stats.pending, stats.total),
           RatMul(Pct(stats.conflicts, stats.total), Half))
RiskScore(stats) ==
    RatAdd(RatMul(Pct(stats.pending, stats.total), Half),
           RatMul(Pct(stats.conflicts, stats.total), Half))

\* Lines 114-119.
Classify_strict(risk_score) ==
    IF ~RatLeq(RatInt(LowMax), risk_score) THEN "Low"
    ELSE IF ~RatLeq(RatInt(ModerateMax), risk_score) THEN "Moderate"
    ELSE "High"
Classify(risk_score) ==
    IF RatLeq(risk_score, RatInt(LowMax)) THEN "Low"
    ELSE IF RatLeq(risk_score, RatInt(ModerateMax)) THEN "Moderate"
    ELSE "High"

\* Lines 121-128.
RankingEntry(name, stats) ==
    [district     |-> name,
     total_claims |-> stats.total,
     pending      |-> stats.pending,
     conflicts    |-> stats.conflicts,
     risk_score   |-> Round(RiskScore(stats), 2),
     risk_level   |-> Classify(RiskScore(stats))]

\* Lines 100-128: one entry per district in dict order, total = 0 skipped.
RECURSIVE Rankings(_, _)
Rankings(ord, dd) ==
    IF ord = << >> THEN << >>
    ELSE LET name == Head(ord)
             rest == Rankings(Tail(ord), dd)
         IN  IF dd[name].total = 0 THEN rest
             ELSE <<RankingEntry(name, dd[name])>> \o rest

\* Line 131: list.sort(key = risk_score, reverse = True); the sort is stable.
RECURSIVE InsertDesc(_, _)
InsertDesc(sorted, e) ==
    IF sorted = << >> THEN <<e>>
    ELSE IF Head(sorted).risk_score >= e.risk_score
         THEN <<Head(sorted)>> \o InsertDesc(Tail(sorted), e)
         ELSE <<e>> \o sorted
RECURSIVE SortFrom(_, _)
SortFrom(sorted, rest) ==
    IF rest = << >> THEN sorted
    ELSE SortFrom(InsertDesc(sorted, Head(rest)), Tail(rest))
SortDesc_unsorted(rankings) == rankings
SortDesc(rankings) == SortFrom(<< >>, rankings)

\* Lines 139-140.
SummaryPct(count, total) ==
    IF total # 0 THEN Round(Pct(count, total), 1) ELSE 0

\* Line 153.
IsConfigured_no_placeholder_test(key) == ~(key = NoKey \/ key = "")
IsConfigured(key) == ~((key = NoKey \/ key = "") \/ key = Placeholder)

\* Line 165: next((d for d in districts if d["district"] == district), None)
NoTarget == [district |-> "<none>"]
RECURSIVE FindDistrict_first(_, _)
FindDistrict_first(districts, name) ==
    IF districts = << >> THEN NoTarget ELSE Head(districts)
RECURSIVE FindDistrict(_, _)
FindDistrict(districts, name) ==
    IF districts = << >> THEN NoTarget
    ELSE IF Head(districts).district = name THEN Head(districts)
    ELSE FindDistrict(Tail(districts), name)

\* Response payloads.
NoResponse        == [kind |-> "none"]
StoreError        == [kind |-> "error", error |-> "StoreUnavailable"]
ConfigError       == [kind |-> "error", error |-> "ServiceUnconfigured"]
AnalyticsFailed   == [kind |-> "error", error |-> "AnalyticsFailed"]
DistrictNotFound  == [kind |-> "error", error |-> "DistrictNotFound"]
GenerationFailed  == [kind |-> "error", error |-> "ServiceFailure"]

\* ------------------------------------------------------------------- Init
Init ==
    /\ GEMINI_API_KEY = NotRead
    /\ pc = "idle"
    /\ endpoint = "none"
    /\ district_arg = "<none>"
    /\ total_claims = 0
    /\ idx = 0
    /\ feature = EmptyMap
    /\ approved_claims = 0
    /\ pending_claims = 0
    /\ conflict_claims = 0
    /\ districts_data = EmptyMap
    /\ order = << >>
    /\ analytics_response = NoResponse
    /\ response = NoResponse
    /\ ext_calls = 0

\* ---------------------------------------------------------------- actions
\* GET /api/analytics
RequestAnalytics ==
    /\ pc = "idle"
    /\ endpoint' = "analytics"
    /\ pc' = "load"
    /\ UNCHANGED <<GEMINI_API_KEY, district_arg, analyticsVars,
                   analytics_response, response, ext_calls>>

\* GET /api/report/{district} with the credential missing, lines 153-154.
RequestReportUnconfigured(d, key) ==
    /\ pc = "idle"
    /\ ~IsConfigured(key)
    /\ GEMINI_API_KEY' = key
    /\ endpoint' = "report"
    /\ district_arg' = d
    /\ response' = ConfigError
    /\ pc' = "done"
    /\ UNCHANGED <<analyticsVars, analytics_response, ext_calls>>

\* GET /api/report/{district} with the credential present, lines 153-158.
RequestReport(d, key) ==
    /\ pc = "idle"
    /\ IsConfigured(key)
    /\ GEMINI_API_KEY' = key
    /\ endpoint' = "report"
    /\ district_arg' = d
    /\ pc' = "load"
    /\ UNCHANGED <<analyticsVars, analytics_response, response, ext_calls>>

\* Lines 50-61: the store is read and the counters are initialised.
Load(n) ==
    /\ pc = "load"
    /\ total_claims' = n
    /\ idx' = 0
    /\ approved_claims' = 0
    /\ pending_claims' = 0
    /\ conflict_claims' = 0
    /\ districts_data' = EmptyMap
    /\ order' = << >>
    /\ pc' = "tally"
    /\ UNCHANGED <<GEMINI_API_KEY, endpoint, district_arg, feature,
                   analytics_response, response, ext_calls>>

\* Lines 50-51 and 145-146: open or json.load raises.
LoadFail ==
    /\ pc = "load"
    /\ analytics_response' = StoreError
    /\ pc' = "returned"
    /\ UNCHANGED <<GEMINI_API_KEY, endpoint, district_arg, analyticsVars,
                   response, ext_calls>>

\* Lines 63-97: one iteration of the tally loop.
Tally(f) ==
    /\ pc = "tally"
    /\ idx < total_claims
    /\ LET district  == District(f)
           status    == Status(f)
           overlap   == Overlap(f)
           protected == Protected(f)
           g  == GlobalCounts([approved |-> approved_claims,
                               pending  |-> pending_claims,
                               conflict |-> conflict_claims],
                              status, overlap, protected)
           dd == EnsureDistrict(districts_data, district)
       IN  /\ feature' = f
           /\ approved_claims' = g.approved
           /\ pending_claims' = g.pending
           /\ conflict_claims' = g.conflict
           /\ order' = EnsureOrder(order, districts_data, district)
           /\ districts_data' =
                  [dd EXCEPT ![district] =
                       DistrictCounts(@, status, overlap, protected)]
    /\ idx' = idx + 1
    /\ UNCHANGED <<GEMINI_API_KEY, pc, endpoint, district_arg, total_claims,
                   analytics_response, response, ext_calls>>

\* Lines 99-143: scoring, classification, ranking and the returned document.
Rank ==
    /\ pc = "tally"
    /\ idx = total_claims
    /\ analytics_response' =
           [kind    |-> "ok",
            summary |-> [total_claims    |-> total_claims,
                         approved_claims |-> approved_claims,
                         pending_claims  |-> pending_claims,
                         conflict_claims |-> conflict_claims,
                         approved_pct    |-> SummaryPct(approved_claims, total_claims),
                         pending_pct     |-> SummaryPct(pending_claims, total_claims)],
            districts |-> SortDesc(Rankings(order, districts_data))]
    /\ pc' = "returned"
    /\ UNCHANGED <<GEMINI_API_KEY, endpoint, district_arg, analyticsVars,
                   response, ext_calls>>

\* The analytics endpoint hands the document to the caller.
ReturnAnalytics ==
    /\ pc = "returned"
    /\ endpoint = "analytics"
    /\ response' = analytics_response
    /\ pc' = "done"
    /\ UNCHANGED <<GEMINI_API_KEY, endpoint, district_arg, analyticsVars,
                   analytics_response, ext_calls>>

\* Lines 160-161.
ReportAnalyticsError ==
    /\ pc = "returned"
    /\ endpoint = "report"
    /\ analytics_response.kind = "error"
    /\ response' = AnalyticsFailed
    /\ pc' = "done"
    /\ UNCHANGED <<GEMINI_API_KEY, endpoint, district_arg, analyticsVars,
                   analytics_response, ext_calls>>

\* Lines 163-168.
Lookup ==
    /\ pc = "returned"
    /\ endpoint = "report"
    /\ analytics_response.kind = "ok"
    /\ LET target_data == FindDistrict(analytics_response.districts, district_arg)
       IN  IF target_data = NoTarget
           THEN /\ response' = DistrictNotFound
                /\ pc' = "done"
           ELSE /\ response' = response
                /\ pc' = "generate"
    /\ UNCHANGED <<GEMINI_API_KEY, endpoint, district_arg, analyticsVars,
                   analytics_response, ext_calls>>

\* Lines 188-195: the external call returns a text.
Generate ==
    /\ pc = "generate"
    /\ ext_calls' = ext_calls + 1
    /\ response' = [kind |-> "report", district |-> district_arg]
    /\ pc' = "done"
    /\ UNCHANGED <<GEMINI_API_KEY, endpoint, district_arg, analyticsVars,
                   analytics_response>>

\* Lines 188-197: the external call raises.
GenerateFail ==
    /\ pc = "generate"
    /\ ext_calls' = ext_calls + 1
    /\ response' = GenerationFailed
    /\ pc' = "done"
    /\ UNCHANGED <<GEMINI_API_KEY, endpoint, district_arg, analyticsVars,
                   analytics_response>>

Next ==
    \/ RequestAnalytics
    \/ \E d \in RequestedNames, key \in KeyValues : RequestReportUnconfigured(d, key)
    \/ \E d \in RequestedNames, key \in KeyValues : RequestReport(d, key)
    \/ \E n \in 0..MaxDeepFeatures : Load(n)
    \/ LoadFail
    \/ \E f \in StoreRecords(total_claims) : Tally(f)
    \/ Rank
    \/ ReturnAnalytics
    \/ ReportAnalyticsError
    \/ Lookup
    \/ Generate
    \/ GenerateFail

Spec == Init /\ [][Next]_vars

\* ----------------------------------------------------------------- claims
\* A step of the tally loop: exactly the Tally action advances idx.
TallyStep == pc = "tally" /\ idx' = idx + 1

\* The counters of a district, zero when the district has no aggregate yet.
Cnt(dd, d) == IF d \in DOMAIN dd THEN dd[d] ELSE ZeroStats

Returned == analytics_response.kind = "ok"
Entries  == analytics_response.districts
RankedNames ==
    IF Returned THEN {Entries[i].district : i \in 1..Len(Entries)} ELSE {}

HasKey(f, key) == key \in DOMAIN Props(f)
Flagged(f) ==
    \/ (HasKey(f, "overlap") /\ Props(f)["overlap"])
    \/ (HasKey(f, "protected_zone") /\ Props(f)["protected_zone"])
StatusIs(f, s) == HasKey(f, "status") /\ Props(f)["status"] = s
ConflictCond(f) == StatusIs(f, "Conflict") \/ Flagged(f)
Delta(b) == IF b THEN 1 ELSE 0

RECURSIVE SumTotals(_)
SumTotals(entries) ==
    IF entries = << >> THEN 0
    ELSE Head(entries).total_claims + SumTotals(Tail(entries))

\* C1: in the document get_analytics returns, the total_claims of the
\* district entries add up to summary.total_claims.
C1_DistrictTotalsSum ==
    Returned => SumTotals(Entries) = analytics_response.summary.total_claims

C1_Witness ==
    /\ Returned
    /\ Len(Entries) >= 2
    /\ analytics_response.summary.total_claims = 3

C3_DistrictConflicts ==
    [][TallyStep =>
         LET f   == feature'
             d   == IF HasKey(f, "district") THEN Props(f)["district"] ELSE "Unknown"
             old == Cnt(districts_data, d)
         IN  /\ d \in DOMAIN districts_data'
             /\ districts_data'[d].conflicts = old.conflicts + Delta(ConflictCond(f))
             /\ (StatusIs(f, "Pending") /\ Flagged(f) =>
                    /\ districts_data'[d].pending = old.pending + 1
                    /\ districts_data'[d].conflicts = old.conflicts + 1)
             /\ \A o \in DOMAIN districts_data \ {d} :
                    districts_data'[o].conflicts = districts_data[o].conflicts
      ]_vars

\* The records (A, Pending), (A, Approved, overlap), (B, Conflict): district A
\* ends with total 2, pending 1, approved 1, conflicts 1 and district B with
\* total 1, conflicts 1.  Both score 50.00, so the stable sort keeps A first.
C3_Witness ==
    /\ Returned
    /\ DOMAIN districts_data = {"A", "B"}
    /\ districts_data["A"] = [total |-> 2, pending |-> 1, conflicts |-> 1, approved |-> 1]
    /\ districts_data["B"] = [total |-> 1, pending |-> 0, conflicts |-> 1, approved |-> 0]
    /\ Entries = << [district |-> "A", total_claims |-> 2, pending |-> 1,
                     conflicts |-> 1, risk_score |-> 5000, risk_level |-> "Moderate"],
                    [district |-> "B", total_claims |-> 1, pending |-> 0,
                     conflicts |-> 1, risk_score |-> 5000, risk_level |-> "Moderate"] >>
    /\ analytics_response.summary.approved_claims = 1
    /\ analytics_response.summary.pending_claims = 1
    /\ analytics_response.summary.conflict_claims = 1

C5_RiskScoreRange ==
    Returned =>
      \A i \in 1..Len(Entries) :
         Entries[i].risk_score >= 0 /\ Entries[i].risk_score <= 100 * 100

C5_Witness ==
    /\ Returned
    /\ \E i \in 1..Len(Entries) :
          Entries[i].risk_score = 100 * 100 /\ Entries[i].total_claims >= 2

\* C6: the returned districts list is ordered non-increasing by risk_score.
C6_SortedByRisk ==
    Returned =>
      \A i \in 1..(Len(Entries) - 1) :
         Entries[i].risk_score >= Entries[i + 1].risk_score

C6_Witness ==
    /\ Returned
    /\ Len(Entries) = 3
    /\ Entries[1].risk_score > Entries[2].risk_score
    /\ Entries[2].risk_score > Entries[3].risk_score
    /\ Entries[1].district = order[3]
    /\ Entries[3].district = order[1]

\* C7 as stated: a report requested for a district that is not in the ranking
\* list always ends with the DistrictNotFound payload.
C7_Original ==
    (pc = "done" /\ endpoint = "report" /\ district_arg \notin RankedNames)
       => response = DistrictNotFound

\* C7 as amended: when the credential is configured and get_analytics returned
\* its document, a report requested for a district that is not in the ranking
\* list ends with the DistrictNotFound payload, without an external call.
C7_NotFoundWhenServed ==
    (/\ pc = "done"
     /\ endpoint = "report"
     /\ GEMINI_API_KEY \notin {NoKey, "", Placeholder}
     /\ Returned
     /\ district_arg \notin RankedNames)
       => (response = DistrictNotFound /\ ext_calls = 0)

C7_Witness ==
    /\ pc = "done"
    /\ endpoint = "report"
    /\ Returned
    /\ Len(Entries) >= 2
    /\ district_arg \notin RankedNames
    /\ response = DistrictNotFound

\* C8: with the credential absent, empty or equal to the placeholder,
\* generate_report ends with the configuration error and makes no external
\* call; an external call is made, or about to be made, only with a configured
\* credential and a district found in the ranking list.
C8_NoCallWithoutCredential ==
    /\ (endpoint = "report" /\ GEMINI_API_KEY \in {NoKey, "", Placeholder}
          => pc = "done" /\ response = ConfigError /\ ext_calls = 0
             /\ analytics_response = NoResponse)
    /\ (ext_calls > 0 \/ pc = "generate"
          => /\ endpoint = "report"
             /\ GEMINI_API_KEY \notin {NoKey, "", Placeholder, NotRead}
             /\ district_arg \in RankedNames)
    /\ ext_calls <= 1

C8_Witness ==
    /\ endpoint = "report"
    /\ GEMINI_API_KEY = Placeholder
    /\ pc = "done"
    /\ response = ConfigError

\* C9 as stated: a record with no district key is tallied under "Unknown", and
\* a record with no status increments the total of its district and none of
\* the approved, pending and conflict counters.
C9_Original ==
    [][TallyStep =>
         LET f   == feature'
             d   == IF HasKey(f, "district") THEN Props(f)["district"] ELSE "Unknown"
             old == Cnt(districts_data, d)
         IN  /\ d \in DOMAIN districts_data'
             /\ districts_data'[d].total = old.total + 1
             /\ (~HasKey(f, "status") =>
                    /\ approved_claims' = approved_claims
                    /\ pending_claims' = pending_claims
                    /\ conflict_claims' = conflict_claims
                    /\ districts_data'[d].approved = old.approved
                    /\ districts_data'[d].pending = old.pending
                    /\ districts_data'[d].conflicts = old.conflicts)
      ]_vars

\* C9 as amended: get_analytics returns its document for records that lack
\* fields; a record with no district key is tallied under "Unknown"; a record
\* with no status increments the total of its district, leaves the approved
\* and pending counters alone, and increments the conflict counters (global
\* and of its district) exactly when its overlap or protected_zone flag is
\* true.
C9_MissingFields ==
    [][/\ TallyStep =>
            LET f   == feature'
                d   == IF HasKey(f, "district") THEN Props(f)["district"] ELSE "Unknown"
                old == Cnt(districts_data, d)
            IN  /\ d \in DOMAIN districts_data'
                /\ DOMAIN districts_data' = DOMAIN districts_data \cup {d}
                /\ districts_data'[d].total = old.total + 1
                /\ \A o \in DOMAIN districts_data \ {d} :
                       districts_data'[o] = districts_data[o]
                /\ (~HasKey(f, "status") =>
                       /\ approved_claims' = approved_claims
                       /\ pending_claims' = pending_claims
                       /\ conflict_claims' = conflict_claims + Delta(Flagged(f))
                       /\ districts_data'[d].approved = old.approved
                       /\ districts_data'[d].pending = old.pending
                       /\ districts_data'[d].conflicts = old.conflicts + Delta(Flagged(f)))
       /\ (pc = "tally" /\ pc' = "returned") =>
            /\ analytics_response'.kind = "ok"
            /\ analytics_response'.summary.total_claims = idx
      ]_vars

C9_Witness ==
    /\ Returned
    /\ feature = ("properties" :> ("overlap" :> TRUE))
    /\ total_claims = 2
    /\ DOMAIN districts_data = {"Unknown"}
    /\ districts_data["Unknown"] = [total |-> 2, pending |-> 0, conflicts |-> 1, approved |-> 0]
    /\ conflict_claims = 1

\* C10: after any prefix of the records, every district aggregate has
\* pending + approved <= total.
C10_PendingApprovedWithinTotal ==
    \A d \in DOMAIN districts_data :
       districts_data[d].pending + districts_data[d].approved
          <= districts_data[d].total

C10_Witness ==
    /\ pc = "tally"
    /\ idx < total_claims
    /\ \E d \in DOMAIN districts_data :
          /\ districts_data[d].pending >= 1
          /\ districts_data[d].approved >= 1
          /\ districts_data[d].pending + districts_data[d].approved
               = districts_data[d].total

====
